---- MODULE Spec2Model ----
(***************************************************************************)
(* The chat turn endpoint of the gift-recommendation assistant             *)
(* (app/api/message/chat/route.ts): the streamed turn pipeline over the    *)
(* durable store (sessions, messages), the context cache, the completion,  *)
(* embedding, vector-index and secondary (toastd) providers, and the       *)
(* diversity merge getDiverseProducts.                                     *)
(***************************************************************************)
EXTENDS Integers, Sequences, FiniteSets, TLC

VARIABLES
    sessions,        \* durable store: set of session rows
    messages,        \* durable store: message rows in created_at order
    cache,           \* context cache: session id -> absent or list of pairs
    redisOpen,       \* context cache: redisClient.isOpen
    pc,              \* per turn: position in POST's start(controller)
    req,             \* per turn: the parsed request body
    sid,             \* per turn: sessionId
    mid,             \* per turn: messageId
    history,         \* per turn: result of getSessionContext
    intentData,      \* per turn: parsed intent
    searchResult,    \* per turn: primary pool
    toastdProducts,  \* per turn: secondary products
    toastdReq,       \* per turn: request sent to the secondary provider
    products,        \* per turn: primary products
    answer,          \* per turn: assistantResponse
    cachedContext,   \* per turn: value read by updateSessionContext
    stream,          \* per turn: events enqueued on the controller
    closed,          \* per turn: controller.close() was called
    trace,           \* per turn: (history variable) what the turn did
    dItems,          \* diversity merge: items
    dSeen,           \* diversity merge: seenBrands
    dLimit,          \* diversity merge: limit
    dOut,            \* diversity merge: returned list
    dPc,             \* diversity merge: "call" or "ret"
    histResp,        \* history endpoint: the last response of GET
    fbReq,           \* feedback endpoint: the last request body
    fbResp,          \* feedback endpoint: the last response
    feedback,        \* durable store: the rows of the feedback table
    gReq,            \* guided search: the last request body
    gCall,           \* guided search: the arguments of its search of the index
    gResp            \* guided search: the last response

turnVars == <<sessions, messages, cache, redisOpen, pc, req, sid, mid, history, intentData,
              searchResult, toastdProducts, toastdReq, products, answer,
              cachedContext, stream, closed, trace>>
divVars == <<dItems, dSeen, dLimit, dOut, dPc>>
histVars == <<histResp>>
fbVars == <<fbReq, fbResp, feedback>>
guidedVars == <<gReq, gCall, gResp>>
endpointVars == <<histVars, fbVars, guidedVars>>
sideVars == <<divVars, endpointVars>>
vars == <<turnVars, sideVars>>

NULL == "NULL"
UNDEF == "undefined"

Min(a, b) == IF a < b THEN a ELSE b
Max(a, b) == IF a > b THEN a ELSE b
Range(s) == {s[i] : i \in 1..Len(s)}
Take(s, n) == SubSeq(s, 1, Min(n, Len(s)))

(***************************************************************************)
(* Bounds of the model                                                     *)
(***************************************************************************)
MaxPool == 4      \* longest generated pool handed to the diversity merge
MaxLimit == 5     \* largest limit handed to the diversity merge

(***************************************************************************)
(* The diversity merge: getDiverseProducts (route.ts 470-536)              *)
(***************************************************************************)
Brands == {"A", "B", "C", "D"}

\* (product as any).brand || 'Unknown'
BrandOf(p) == IF p.brand = UNDEF THEN "Unknown" ELSE p.brand

\* const product = { id: item.id, ...item.payload }
Product(item) == [id |-> item.id, brand |-> item.payload.brand,
                  price |-> item.payload.price_numeric, source |-> item.payload.source]

RECURSIVE MapProduct(_)
MapProduct(items) ==
    IF items = <<>> THEN <<>>
    ELSE <<Product(Head(items))>> \o MapProduct(Tail(items))

\* items.forEach: brand not in seenBrandsSet -> newBrandItems
NewBrandItems(items, seen) ==
    SelectSeq(MapProduct(items), LAMBDA p : BrandOf(p) \notin seen)

\* items.forEach: brand in seenBrandsSet -> oldBrandItems
OldBrandItems(items, seen) ==
    SelectSeq(MapProduct(items), LAMBDA p : BrandOf(p) \in seen)

\* brandMap keys in insertion order: the brands of list by first appearance
RECURSIVE BrandKeys(_, _)
BrandKeys(list, acc) ==
    IF list = <<>> THEN acc
    ELSE BrandKeys(Tail(list),
                   IF BrandOf(Head(list)) \in Range(acc) THEN acc
                   ELSE Append(acc, BrandOf(Head(list))))

\* brandMap.get(b)
BrandGroup(list, b) == SelectSeq(list, LAMBDA p : BrandOf(p) = b)

\* brands.forEach(b => maxLen = Math.max(maxLen, b.length))
RECURSIVE MaxLenOf(_, _)
MaxLenOf(list, keys) ==
    IF keys = <<>> THEN 0
    ELSE Max(Len(BrandGroup(list, Head(keys))), MaxLenOf(list, Tail(keys)))

\* inner loop: for (const brandProducts of brands) if (i < brandProducts.length) push
RECURSIVE InterleaveRound(_, _, _)
InterleaveRound(list, keys, i) ==
    IF keys = <<>> THEN <<>>
    ELSE (IF i <= Len(BrandGroup(list, Head(keys)))
          THEN <<BrandGroup(list, Head(keys))[i]>> ELSE <<>>)
         \o InterleaveRound(list, Tail(keys), i)

\* outer loop: for (let i = 0; i < maxLen; i++)
RECURSIVE InterleaveFrom(_, _, _, _)
InterleaveFrom(list, keys, i, maxLen) ==
    IF i > maxLen THEN <<>>
    ELSE InterleaveRound(list, keys, i) \o InterleaveFrom(list, keys, i + 1, maxLen)

\* a grouping by brand that takes every item of a brand before the next brand
interleaveByBrandGrouped(list) ==
    LET keys == BrandKeys(list, <<>>)
        RECURSIVE Groups(_)
        Groups(ks) == IF ks = <<>> THEN <<>>
                      ELSE BrandGroup(list, Head(ks)) \o Groups(Tail(ks))
    IN Groups(keys)

interleaveByBrand(list) ==
    LET keys == BrandKeys(list, <<>>)
    IN InterleaveFrom(list, keys, 1, MaxLenOf(list, keys))

\* let finalPool = [...sortedNew, ...sortedOld]
FinalPool(items, seen) ==
    interleaveByBrand(NewBrandItems(items, seen))
        \o interleaveByBrand(OldBrandItems(items, seen))

\* a sampling pool that is the whole prioritized list
TopPoolAll(items, seen, limit) == FinalPool(items, seen)

\* const poolSize = Math.min(finalPool.length, limit * 2); finalPool.slice(0, poolSize)
TopPool(items, seen, limit) ==
    LET finalPool == FinalPool(items, seen)
    IN SubSeq(finalPool, 1, Min(Len(finalPool), limit * 2))

Swap(s, i, j) == [s EXCEPT ![i] = s[j], ![j] = s[i]]

\* Fisher-Yates: for (i = n-1; i > 0; i--) { j = floor(random * (i+1)); swap(i, j) }
\* (1-based here: position i is swapped with any j in 1..i); all outcomes.
RECURSIVE FisherYates(_, _)
FisherYates(s, i) ==
    IF i <= 1 THEN {s}
    ELSE UNION {FisherYates(Swap(s, i, j), i - 1) : j \in 1..i}

\* every list getDiverseProducts(items, limit) can return, given seenBrands
getDiverseProducts(items, seen, limit) ==
    IF Len(items) = 0 THEN {<<>>}
    ELSE LET topPool == TopPool(items, seen, limit)
         IN {Take(t, limit) : t \in FisherYates(topPool, Len(topPool))}

(***************************************************************************)
(* Inputs of the diversity merge: pools of search hits.  A pool is written *)
(* by its brands; brand names are interchangeable for the merge, so the    *)
(* generated pools name brands in order of first appearance while          *)
(* seenBrands ranges over every subset.                                    *)
(***************************************************************************)
BrandSeq == <<"A", "B", "C", "D">>

Point(i, b) == [id |-> i, payload |-> [brand |-> b, price_numeric |-> 0, source |-> UNDEF]]

PoolOf(bs) == [i \in 1..Len(bs) |-> Point(i, bs[i])]

DistinctCount(bs) == Cardinality(Range(bs))

\* brand sequences of length n whose brands first appear in BrandSeq order
RECURSIVE BrandLists(_)
BrandLists(n) ==
    IF n = 0 THEN {<<>>}
    ELSE UNION {{Append(bs, BrandSeq[k]) :
                   k \in 1..Min(DistinctCount(bs) + 1, Len(BrandSeq))} :
                bs \in BrandLists(n - 1)}

\* the pool of testDiversityLogic: brands [A, A, B, A, C, B, D]
ExampleBrands == <<"A", "A", "B", "A", "C", "B", "D">>
ExamplePool == PoolOf(ExampleBrands)
ExampleLimit == 5


(***************************************************************************)
(* The turn endpoint: data                                                 *)
(***************************************************************************)
MaxTurns == 3       \* turns (requests) of one run
MaxInFlight == 2    \* turns processed at the same time, where turns overlap

Turns == 1..MaxTurns

ContextDbLimit == 7      \* ORDER BY created_at DESC LIMIT 7
ContextKeep == 10        \* history.slice(-10)
NameLen == 50            \* message.substring(0, 50)
PoolLimit == 60          \* primary search limit
DisplayLimit == 10       \* getDiverseProducts(searchResult, 10)
ToastdLimit == 10        \* secondary limit
PriceCap == 1000000      \* price_max || 1000000

\* an absent (undefined) number, an absent id
NoNum == -1
NoId == -1

\* A text is a list of runs [c, n]: the character c repeated n times.
\* The empty text stands for an absent or empty string (both falsy).
NoText == <<>>

\* String.prototype.substring(0, k)
RECURSIVE Substring0(_, _)
Substring0(txt, k) ==
    IF txt = <<>> \/ k <= 0 THEN <<>>
    ELSE IF Head(txt).n <= k
         THEN <<Head(txt)>> \o Substring0(Tail(txt), k - Head(txt).n)
         ELSE <<[c |-> Head(txt).c, n |-> k]>>

ShortMessage == <<[c |-> "g", n |-> 2]>>
LongMessage == <<[c |-> "l", n |-> 30], [c |-> "o", n |-> 25]>>
Messages == {ShortMessage, LongMessage}
RefinedQuery == <<[c |-> "q", n |-> 3]>>

GuestId == "guest"
ClientSid == 0          \* a session id the client made up (test_diversity.mts:7)
Uuid(t) == t            \* uuidv4(): a fresh id, one per turn

\* the vector index: named collections of points in relevance order
Pt(i, b, price, src) ==
    [id |-> i, payload |-> [brand |-> b, price_numeric |-> price, source |-> src]]

Collection(name) ==
    CASE name = "products" -> <<Pt(11, "A", 50, UNDEF), Pt(12, "B", 500, UNDEF)>>
      [] name = "girlfriends" -> <<Pt(21, "A", 80, UNDEF)>>
      [] name = "boyfriends" -> <<>>
      [] name = "toastd" -> <<Pt(31, UNDEF, 60, UNDEF)>>

\* x || d  for a number: undefined and 0 are falsy
OrElse(x, d) == IF x = NoNum \/ x = 0 THEN d ELSE x

NoPrefs == [price_min |-> NoNum, price_max |-> NoNum, priceMin |-> NoNum, priceMax |-> NoNum]

\* the parsed intent; hasPrefs: the object has a preferences field
EmptyIntent == [search_query |-> NoText, target_collection |-> UNDEF,
                hasPrefs |-> FALSE, preferences |-> NoPrefs]

\* intentData.preferences || {}
PrefsOf(intent) == IF intent.hasPrefs THEN intent.preferences ELSE NoPrefs

\* contents the intent completion may return: null, text that is no JSON,
\* and JSON objects with all or some of the fields
NullContent == [kind |-> "null", value |-> EmptyIntent]
NotJson == [kind |-> "text", value |-> EmptyIntent]
Json(v) == [kind |-> "json", value |-> v]
FullIntent == [search_query |-> RefinedQuery, target_collection |-> "girlfriends",
               hasPrefs |-> TRUE, preferences |-> [NoPrefs EXCEPT !.price_max = 100]]
PartialIntent == [EmptyIntent EXCEPT !.target_collection = "boyfriends"]
ZeroMaxIntent == [EmptyIntent EXCEPT !.hasPrefs = TRUE,
                                     !.preferences = [NoPrefs EXCEPT !.price_max = 0]]
MinOnlyIntent == [EmptyIntent EXCEPT !.hasPrefs = TRUE,
                                     !.preferences = [NoPrefs EXCEPT !.price_min = 100]]
IntentContents ==
    {NullContent, NotJson, Json(EmptyIntent), Json(FullIntent), Json(PartialIntent),
     Json(ZeroMaxIntent), Json(MinOnlyIntent)}

\* intentCompletion.choices[0].message.content || '{}'
ContentOrEmpty(content) == IF content.kind = "null" THEN Json(EmptyIntent) ELSE content

\* JSON.parse: a SyntaxError, or the value
ParseThrows(content) == content.kind = "text"
ParseValue(content) == content.value

\* intentData.search_query || message
SearchQuery(intent, message) ==
    IF intent.search_query = NoText THEN message ELSE intent.search_query

\* intentData.target_collection || 'products'
TargetCollection(intent) ==
    IF intent.target_collection = UNDEF THEN "products" ELSE intent.target_collection

\* const filter = {}; filter.must = [{range}]; filter.must_not = [{has_id}]
BuildFilter(intent, excludeIds) ==
    LET price_min == PrefsOf(intent).price_min
        price_max == PrefsOf(intent).price_max
    IN [range |-> price_min # NoNum \/ price_max # NoNum,
        gte |-> OrElse(price_min, 0),
        lte |-> OrElse(price_max, PriceCap),
        must_not |-> IF Cardinality(excludeIds) > 0 THEN excludeIds ELSE {}]

Matches(pt, filter) ==
    /\ filter.range =>
          /\ pt.payload.price_numeric >= filter.gte
          /\ pt.payload.price_numeric <= filter.lte
    /\ pt.id \notin filter.must_not

\* qdrantClient.search(collection, {filter, limit}) when it succeeds
Search(collection, filter, limit) ==
    Take(SelectSeq(Collection(collection), LAMBDA pt : Matches(pt, filter)), limit)

\* searchToastd(message, {limit, priceMin, priceMax}): the request body
ToastdRequest(message, intent) ==
    [query |-> message, limit |-> ToastdLimit,
     priceMin |-> PrefsOf(intent).priceMin, priceMax |-> PrefsOf(intent).priceMax]

\* the secondary provider's answer to POST /search {query, limit, priceMin, priceMax}
ToastdApi(r) ==
    Take(SelectSeq(Collection("toastd"),
                   LAMBDA pt : /\ r.priceMin # NoNum => pt.payload.price_numeric >= r.priceMin
                               /\ r.priceMax # NoNum => pt.payload.price_numeric <= r.priceMax),
         r.limit)

\* toastdResponse.results.map(item => ({id, payload: {...}, score, source: 'toastd'}))
ToastdItem(pt) ==
    [id |-> pt.id, brand |-> UNDEF, price |-> NoNum, source |-> "toastd"]

RECURSIVE MapToastd(_)
MapToastd(items) ==
    IF items = <<>> THEN <<>>
    ELSE <<ToastdItem(Head(items))>> \o MapToastd(Tail(items))

\* JSON.stringify(p) and JSON.parse of it
Stringify(p) == <<"json", p>>
Parse(str) == str[2]

RECURSIVE MapStringify(_)
MapStringify(ps) ==
    IF ps = <<>> THEN <<>> ELSE <<Stringify(Head(ps))>> \o MapStringify(Tail(ps))

\* the product column: SQL NULL, or a text[] value
ProductNull == [null |-> TRUE, list |-> <<>>]
ProductArray(l) == [null |-> FALSE, list |-> l]

\* a cache entry: absent (never set or expired), or the JSON text of a list
CacheAbsent == [present |-> FALSE, list |-> <<>>]
CacheList(l) == [present |-> TRUE, list |-> l]

\* request bodies
NoReq == [message |-> NoText, sessionId |-> NoId, isReload |-> FALSE,
          excludeIds |-> {}, seenBrands |-> {}]

\* stream events
NoData == [sessionId |-> NoId, messageId |-> NoId, assistantResponse |-> NULL,
           products |-> <<>>, toastdProducts |-> <<>>, preferences |-> NoPrefs]
Status(m, a) == [type |-> "status", message |-> m, arg |-> a, data |-> NoData]
ErrorEvent(m) == [type |-> "error", message |-> m, arg |-> "", data |-> NoData]
ResultEvent(d) == [type |-> "result", message |-> "", arg |-> "", data |-> d]

FallbackAnswer == "I'm sorry, I couldn't find any recommendations right now."
Reply == "reply"
\* contents of the narrative completion: null or a text
NarrativeContents == {NULL, Reply}

\* responseCompletion.choices[0].message.content || "I'm sorry, ..."
AnswerOf(content) == IF content = NULL THEN FallbackAnswer ELSE content

\* history variable of a turn: the step that threw, whether a cache operation
\* of the turn succeeded, the collections searched, the secondary calls made
\* (to the provider, to the index directly) and how many of them failed
NoTrace == [failedAt |-> NULL, cacheOk |-> FALSE, searched |-> <<>>, queries |-> <<>>,
            toastdApi |-> 0, toastdDirect |-> 0, toastdFailed |-> 0]

(***************************************************************************)
(* The turn endpoint: POST /api/message/chat (route.ts 369-686)            *)
(***************************************************************************)
locals == <<history, intentData, searchResult, toastdProducts, toastdReq,
            products, answer, cachedContext>>

InFlight == {t \in Turns : pc[t] \notin {"idle", "done"}}

SessionRows(id) == {s \in sessions : s.id = id}

\* a query without "AND id != $2": the row in flight is selected too
SessionMessagesAll(s, m) == SelectSeq(messages, LAMBDA r : r.session_id = s)

\* the rows of a session but the one in flight, oldest first; the last k of a list
SessionMessages(s, m) == SelectSeq(messages, LAMBDA r : r.session_id = s /\ r.id # m)
LastOf(rows, k) == SubSeq(rows, Max(1, Len(rows) - k + 1), Len(rows))

\* a {user, assistant} pair; "of" (the row it stands for) is a history field
Pair(u, a, m) == [user |-> u, assistant |-> a, of |-> m]

RECURSIVE MapPairs(_)
MapPairs(rows) ==
    IF rows = <<>> THEN <<>>
    ELSE <<Pair(Head(rows).user_content, Head(rows).assistant_content, Head(rows).id)>>
         \o MapPairs(Tail(rows))

\* getSessionContext, fallback to DB: SELECT ... ORDER BY created_at DESC LIMIT 7, reversed
DbContext(s, m) == MapPairs(LastOf(SessionMessages(s, m), ContextDbLimit))

\* updateSessionContext: history.push(...); if (history.length > 10) history.slice(-10)
PushTrim(list, pair) ==
    LET pushed == Append(list, pair)
    IN IF Len(pushed) > ContextKeep THEN LastOf(pushed, ContextKeep) ELSE pushed

\* an UPDATE that sets the assistant content and leaves the product column
UpdateRowContentOnly(r, a, ps) == [r EXCEPT !.assistant_content = a]

\* UPDATE messages SET assistant_content = $1, product = $2 WHERE id = $3
UpdateRow(r, a, ps) ==
    [r EXCEPT !.assistant_content = a, !.product = ProductArray(MapStringify(ps))]

UpdateMessages(m, a, ps) ==
    [i \in 1..Len(messages) |->
        IF messages[i].id = m THEN UpdateRow(messages[i], a, ps) ELSE messages[i]]

\* INSERT INTO messages (id, session_id, user_content, is_reload)
NewMessageRow(m, s, u, r) ==
    [id |-> m, session_id |-> s, user_content |-> u, assistant_content |-> NULL,
     product |-> ProductNull, is_reload |-> r]

\* a session named by the whole message
NewSessionRowFullName(s, message) ==
    [id |-> s, session_name |-> message, guest_id |-> GuestId]

\* INSERT INTO sessions (id, session_name, guest_id)
NewSessionRow(s, message) ==
    [id |-> s, session_name |-> Substring0(message, NameLen), guest_id |-> GuestId]

Emit(t, events) == stream' = [stream EXCEPT ![t] = @ \o events]

\* the turn's variables go out of scope
ResetLocals(t) ==
    /\ history' = [history EXCEPT ![t] = <<>>]
    /\ intentData' = [intentData EXCEPT ![t] = EmptyIntent]
    /\ searchResult' = [searchResult EXCEPT ![t] = <<>>]
    /\ toastdProducts' = [toastdProducts EXCEPT ![t] = <<>>]
    /\ products' = [products EXCEPT ![t] = <<>>]
    /\ answer' = [answer EXCEPT ![t] = NULL]
    /\ cachedContext' = [cachedContext EXCEPT ![t] = CacheAbsent]
    /\ UNCHANGED toastdReq

\* a catch block that reports the error twice
CatchEventsTwice(step) == <<ErrorEvent(step), ErrorEvent(step)>>

\* the events of the catch block (route.ts 668-673)
CatchEvents(step) == <<ErrorEvent(step)>>

\* a catch block without the finally: the stream is left open
CatchNoClose(t, step, tr) ==
    /\ Emit(t, CatchEvents(step))
    /\ UNCHANGED closed
    /\ pc' = [pc EXCEPT ![t] = "done"]
    /\ trace' = [trace EXCEPT ![t] = [tr EXCEPT !.failedAt = step]]
    /\ ResetLocals(t)

\* catch (error) { enqueue({type: 'error'}) } finally { controller.close() }
CatchFinally(t, step, tr) ==
    /\ Emit(t, CatchEvents(step))
    /\ closed' = [closed EXCEPT ![t] = TRUE]
    /\ pc' = [pc EXCEPT ![t] = "done"]
    /\ trace' = [trace EXCEPT ![t] = [tr EXCEPT !.failedAt = step]]
    /\ ResetLocals(t)

\* 8. Send Final Data (route.ts 655-666): the data of the result event
ResultData(t) ==
    [sessionId |-> sid[t], messageId |-> mid[t], assistantResponse |-> answer[t],
     products |-> products[t], toastdProducts |-> toastdProducts[t],
     preferences |-> PrefsOf(intentData[t])]

\* enqueue({type: 'result', data}) ; finally { controller.close() }
SendResult(t, tr) ==
    /\ Emit(t, <<ResultEvent(ResultData(t))>>)
    /\ closed' = [closed EXCEPT ![t] = TRUE]
    /\ pc' = [pc EXCEPT ![t] = "done"]
    /\ trace' = [trace EXCEPT ![t] = tr]
    /\ ResetLocals(t)

\* the results earlier turns streamed, as a client sees them
Results ==
    UNION {{stream[t][i].data : i \in {k \in 1..Len(stream[t]) : stream[t][k].type = "result"}} :
           t \in {u \in Turns : pc[u] = "done"}}

\* test_diversity.mts 44-49, 71-72: ids and brands of products and toastdProducts
ResultIds(d) == {p.id : p \in Range(d.products) \cup Range(d.toastdProducts)}
ResultBrands(d) ==
    {p.brand : p \in {q \in Range(d.products) \cup Range(d.toastdProducts) : q.brand # UNDEF}}

\* what a client sends as excludeIds and seenBrands: nothing, or those of an earlier result
Exclusions ==
    {[ids |-> {}, brands |-> {}]} \cup
    {[ids |-> ResultIds(d), brands |-> ResultBrands(d)] : d \in Results}

\* const body = await req.json(); const {message, sessionId, isReload, ...} = body
\* A reload repeats a message of the session (ChatInterface.tsx 154-157).
Receive(t) ==
    /\ pc[t] = "idle"
    /\ t > 1 => pc[t - 1] # "idle"
    /\ \/ /\ \E m \in Messages, s \in {NoId, ClientSid}, x \in Exclusions, r \in BOOLEAN :
                /\ r => \E u \in Turns : /\ u # t
                                         /\ req[u].message = m
                                         /\ req[u].sessionId = s
                                         /\ s # NoId
                /\ req' = [req EXCEPT ![t] = [message |-> m, sessionId |-> s, isReload |-> r,
                                              excludeIds |-> x.ids, seenBrands |-> x.brands]]
          /\ pc' = [pc EXCEPT ![t] = "session"]
          /\ UNCHANGED <<stream, closed, trace, locals>>
       \/ /\ CatchFinally(t, "body", trace[t])
          /\ UNCHANGED req
    /\ UNCHANGED <<sessions, messages, cache, redisOpen, sid, mid, sideVars>>

\* 1. Session Management (route.ts 382-402), up to the first query's answer
SessionResolve(t) ==
    /\ pc[t] = "session"
    /\ IF req[t].sessionId = NoId
       THEN \/ /\ sid' = [sid EXCEPT ![t] = Uuid(t)]
               /\ sessions' = sessions \cup {NewSessionRow(Uuid(t), req[t].message)}
               /\ pc' = [pc EXCEPT ![t] = "storeUser"]
               /\ UNCHANGED <<stream, closed, trace, locals>>
            \/ /\ sid' = [sid EXCEPT ![t] = Uuid(t)]
               /\ CatchFinally(t, "sessionInsert", trace[t])
               /\ UNCHANGED sessions
       ELSE \/ /\ sid' = [sid EXCEPT ![t] = req[t].sessionId]
               /\ pc' = [pc EXCEPT ![t] =
                            IF SessionRows(req[t].sessionId) = {} THEN "sessionInsert"
                            ELSE "storeUser"]
               /\ UNCHANGED <<sessions, stream, closed, trace, locals>>
            \/ /\ sid' = [sid EXCEPT ![t] = req[t].sessionId]
               /\ CatchFinally(t, "sessionCheck", trace[t])
               /\ UNCHANGED sessions
    /\ UNCHANGED <<messages, cache, redisOpen, req, mid, sideVars>>

\* route.ts 395-401: the INSERT after sessionCheck found no row; id is the primary key
SessionInsert(t) ==
    /\ pc[t] = "sessionInsert"
    /\ \/ /\ SessionRows(sid[t]) = {}
          /\ sessions' = sessions \cup {NewSessionRow(sid[t], req[t].message)}
          /\ pc' = [pc EXCEPT ![t] = "storeUser"]
          /\ UNCHANGED <<stream, closed, trace, locals>>
       \/ /\ CatchFinally(t, "sessionInsert", trace[t])
          /\ UNCHANGED sessions
    /\ UNCHANGED <<messages, cache, redisOpen, req, sid, mid, sideVars>>

\* a turn that reports "Thinking..." before its row is inserted
StoreUserStatusFirst(t) ==
    /\ pc[t] = "storeUser"
    /\ \/ /\ mid' = [mid EXCEPT ![t] = Uuid(t)]
          /\ messages' = Append(messages, NewMessageRow(Uuid(t), sid[t], req[t].message,
                                                        req[t].isReload))
          /\ Emit(t, <<Status("Thinking...", "")>>)
          /\ pc' = [pc EXCEPT ![t] = "ctxGet"]
          /\ UNCHANGED <<closed, trace, locals>>
       \/ /\ mid' = [mid EXCEPT ![t] = Uuid(t)]
          /\ stream' = [stream EXCEPT ![t] = @ \o <<Status("Thinking...", "")>>
                                               \o CatchEvents("storeUser")]
          /\ closed' = [closed EXCEPT ![t] = TRUE]
          /\ pc' = [pc EXCEPT ![t] = "done"]
          /\ trace' = [trace EXCEPT ![t].failedAt = "storeUser"]
          /\ ResetLocals(t)
          /\ UNCHANGED messages
    /\ UNCHANGED <<sessions, cache, redisOpen, req, sid, sideVars>>

\* 2. Store User Message (route.ts 404-411)
StoreUser(t) ==
    /\ pc[t] = "storeUser"
    /\ \/ /\ mid' = [mid EXCEPT ![t] = Uuid(t)]
          /\ messages' = Append(messages, NewMessageRow(Uuid(t), sid[t], req[t].message,
                                                        req[t].isReload))
          /\ Emit(t, <<Status("Thinking...", "")>>)
          /\ pc' = [pc EXCEPT ![t] = "ctxGet"]
          /\ UNCHANGED <<closed, trace, locals>>
       \/ /\ mid' = [mid EXCEPT ![t] = Uuid(t)]
          /\ CatchFinally(t, "storeUser", trace[t])
          /\ UNCHANGED messages
    /\ UNCHANGED <<sessions, cache, redisOpen, req, sid, sideVars>>

\* a cache read outside try/catch: with the cache closed the turn is aborted
ContextGetThrows(t) ==
    /\ pc[t] = "ctxGet"
    /\ IF redisOpen /\ cache[sid[t]].present
       THEN /\ history' = [history EXCEPT ![t] = cache[sid[t]].list]
            /\ Emit(t, <<Status("Analyzing your request...", "")>>)
            /\ pc' = [pc EXCEPT ![t] = "intent"]
            /\ trace' = [trace EXCEPT ![t].cacheOk = TRUE]
            /\ UNCHANGED <<intentData, searchResult, toastdProducts, toastdReq, products,
                           answer, cachedContext, closed>>
       ELSE IF redisOpen
            THEN /\ pc' = [pc EXCEPT ![t] = "ctxDb"]
                 /\ trace' = [trace EXCEPT ![t].cacheOk = TRUE]
                 /\ UNCHANGED <<stream, closed, locals>>
            ELSE CatchFinally(t, "contextGet", trace[t])
    /\ UNCHANGED <<sessions, messages, cache, redisOpen, req, sid, mid, sideVars>>

\* getSessionContext, "Try Redis first" (route.ts 315-325); then sendStatus on a hit.
\* With the cache closed (or get throwing, which is caught alike) the DB is asked.
ContextGet(t) ==
    /\ pc[t] = "ctxGet"
    /\ IF redisOpen /\ cache[sid[t]].present
       THEN /\ history' = [history EXCEPT ![t] = cache[sid[t]].list]
            /\ Emit(t, <<Status("Analyzing your request...", "")>>)
            /\ pc' = [pc EXCEPT ![t] = "intent"]
            /\ trace' = [trace EXCEPT ![t].cacheOk = TRUE]
       ELSE /\ pc' = [pc EXCEPT ![t] = "ctxDb"]
            /\ trace' = [trace EXCEPT ![t].cacheOk = @ \/ redisOpen]
            /\ UNCHANGED <<history, stream>>
    /\ UNCHANGED <<sessions, messages, cache, redisOpen, req, sid, mid, intentData,
                   searchResult, toastdProducts, toastdReq, products, answer,
                   cachedContext, closed, sideVars>>

\* getSessionContext, "Fallback to DB" (route.ts 327-338)
ContextDb(t) ==
    /\ pc[t] = "ctxDb"
    /\ \/ /\ history' = [history EXCEPT ![t] = DbContext(sid[t], mid[t])]
          /\ pc' = [pc EXCEPT ![t] = "ctxSet"]
          /\ UNCHANGED <<intentData, searchResult, toastdProducts, toastdReq, products,
                         answer, cachedContext, stream, closed, trace>>
       \/ CatchFinally(t, "contextDb", trace[t])
    /\ UNCHANGED <<sessions, messages, cache, redisOpen, req, sid, mid, sideVars>>

\* getSessionContext, "Populate Redis" (route.ts 340-349); then sendStatus
ContextSet(t) ==
    /\ pc[t] = "ctxSet"
    /\ IF redisOpen
       THEN /\ cache' = [cache EXCEPT ![sid[t]] = CacheList(history[t])]
            /\ trace' = [trace EXCEPT ![t].cacheOk = TRUE]
       ELSE UNCHANGED <<cache, trace>>
    /\ Emit(t, <<Status("Analyzing your request...", "")>>)
    /\ pc' = [pc EXCEPT ![t] = "intent"]
    /\ UNCHANGED <<sessions, messages, redisOpen, req, sid, mid, locals, closed, sideVars>>

\* 4. Intent Analysis (route.ts 418-450): the completion call and JSON.parse
Intent(t) ==
    /\ pc[t] = "intent"
    /\ \/ \E content \in IntentContents :
            IF ParseThrows(ContentOrEmpty(content))
            THEN CatchFinally(t, "intentParse", trace[t])
            ELSE /\ intentData' = [intentData EXCEPT ![t] = ParseValue(ContentOrEmpty(content))]
                 /\ pc' = [pc EXCEPT ![t] = "embed"]
                 /\ UNCHANGED <<history, searchResult, toastdProducts, toastdReq, products,
                                answer, cachedContext, stream, closed, trace>>
       \/ CatchFinally(t, "intent", trace[t])
    /\ UNCHANGED <<sessions, messages, cache, redisOpen, req, sid, mid, sideVars>>

\* 5. getEmbedding(searchQuery), the filter, sendStatus (route.ts 452-467)
Embed(t) ==
    /\ pc[t] = "embed"
    /\ \/ /\ Emit(t, <<Status("Searching in", TargetCollection(intentData[t]))>>)
          /\ pc' = [pc EXCEPT ![t] = "search"]
          /\ UNCHANGED <<closed, trace, locals>>
       \/ CatchFinally(t, "embedding", trace[t])
    /\ UNCHANGED <<sessions, messages, cache, redisOpen, req, sid, mid, sideVars>>

Filter(t) == BuildFilter(intentData[t], req[t].excludeIds)

\* the arguments of qdrantClient.search: the vector is the embedding of searchQuery
Query(t, collection) ==
    [collection |-> collection, vector |-> SearchQuery(intentData[t], req[t].message),
     filter |-> Filter(t), limit |-> PoolLimit]

\* a fallback that does not look at the targeted result: any target but
\* 'products' is searched again in 'products'
PrimarySearchAlways(t) ==
    /\ pc[t] = "search"
    /\ LET target == TargetCollection(intentData[t])
           found == Search(target, Filter(t), PoolLimit)
           tr == [trace[t] EXCEPT !.searched = Append(@, target),
                                  !.queries = Append(@, Query(t, target))]
       IN \/ /\ searchResult' = [searchResult EXCEPT ![t] = found]
             /\ IF target # "products"
                THEN /\ Emit(t, <<Status("No results, checking general products...", target)>>)
                     /\ pc' = [pc EXCEPT ![t] = "fallback"]
                ELSE /\ Emit(t, <<Status("Checking Toastd catalog...", "")>>)
                     /\ pc' = [pc EXCEPT ![t] = "toastd"]
             /\ trace' = [trace EXCEPT ![t] = tr]
             /\ UNCHANGED <<history, intentData, toastdProducts, toastdReq, products,
                            answer, cachedContext, closed>>
          \/ CatchFinally(t, "search", tr)
    /\ UNCHANGED <<sessions, messages, cache, redisOpen, req, sid, mid, sideVars>>

\* Step 5a: Targeted Search (route.ts 538-548, 559)
PrimarySearch(t) ==
    /\ pc[t] = "search"
    /\ LET target == TargetCollection(intentData[t])
           found == Search(target, Filter(t), PoolLimit)
           tr == [trace[t] EXCEPT !.searched = Append(@, target),
                                  !.queries = Append(@, Query(t, target))]
       IN \/ /\ searchResult' = [searchResult EXCEPT ![t] = found]
             /\ IF Len(found) = 0 /\ target # "products"
                THEN /\ Emit(t, <<Status("No results, checking general products...", target)>>)
                     /\ pc' = [pc EXCEPT ![t] = "fallback"]
                ELSE /\ Emit(t, <<Status("Checking Toastd catalog...", "")>>)
                     /\ pc' = [pc EXCEPT ![t] = "toastd"]
             /\ trace' = [trace EXCEPT ![t] = tr]
             /\ UNCHANGED <<history, intentData, toastdProducts, toastdReq, products,
                            answer, cachedContext, closed>>
          \/ CatchFinally(t, "search", tr)
    /\ UNCHANGED <<sessions, messages, cache, redisOpen, req, sid, mid, sideVars>>

\* Fallback if empty and not already searching 'products' (route.ts 546-559)
FallbackSearch(t) ==
    /\ pc[t] = "fallback"
    /\ LET tr == [trace[t] EXCEPT !.searched = Append(@, "products"),
                                  !.queries = Append(@, Query(t, "products"))]
       IN \/ /\ searchResult' = [searchResult EXCEPT ![t] =
                                    Search("products", Filter(t), PoolLimit)]
             /\ Emit(t, <<Status("Checking Toastd catalog...", "")>>)
             /\ pc' = [pc EXCEPT ![t] = "toastd"]
             /\ trace' = [trace EXCEPT ![t] = tr]
             /\ UNCHANGED <<history, intentData, toastdProducts, toastdReq, products,
                            answer, cachedContext, closed>>
          \/ CatchFinally(t, "fallbackSearch", tr)
    /\ UNCHANGED <<sessions, messages, cache, redisOpen, req, sid, mid, sideVars>>

\* products = getDiverseProducts(searchResult, 10); sendStatus(...) (route.ts 602-611)
Diversify(t, secondary) ==
    /\ toastdProducts' = [toastdProducts EXCEPT ![t] = secondary]
    /\ \E ps \in getDiverseProducts(searchResult[t], req[t].seenBrands, DisplayLimit) :
          /\ products' = [products EXCEPT ![t] = ps]
          /\ Emit(t, <<IF Len(ps) = 0 THEN Status("No matching products found.", "")
                       ELSE Status("Found relevant products.", ToString(Len(ps))),
                       Status("Curating recommendations...", "")>>)
    /\ pc' = [pc EXCEPT ![t] = "narrative"]

\* what the catch of the secondary provider call does (route.ts 586-589)
ToastdCatch(t) ==
    /\ pc' = [pc EXCEPT ![t] = "toastdDirect"]
    /\ UNCHANGED <<toastdProducts, products, stream>>

\* Search Toastd Collection via FastAPI (route.ts 558-587)
ToastdCall(t) ==
    /\ pc[t] = "toastd"
    /\ toastdReq' = [toastdReq EXCEPT ![t] = ToastdRequest(req[t].message, intentData[t])]
    /\ \/ /\ Diversify(t, MapToastd(ToastdApi(ToastdRequest(req[t].message, intentData[t]))))
          /\ trace' = [trace EXCEPT ![t].toastdApi = @ + 1]
       \/ /\ ToastdCatch(t)
          /\ trace' = [trace EXCEPT ![t].toastdApi = @ + 1, ![t].toastdFailed = @ + 1]
    /\ UNCHANGED <<sessions, messages, cache, redisOpen, req, sid, mid, history, intentData,
                   searchResult, answer, cachedContext, closed, sideVars>>

\* a direct search without its own try/catch: its failure aborts the turn
ToastdDirectThrows(t) ==
    /\ pc[t] = "toastdDirect"
    /\ \/ /\ \E tp \in getDiverseProducts(Search("toastd", Filter(t), ToastdLimit),
                                          req[t].seenBrands, ToastdLimit) :
                Diversify(t, tp)
          /\ trace' = [trace EXCEPT ![t].toastdDirect = @ + 1]
          /\ UNCHANGED <<history, intentData, searchResult, toastdReq, answer,
                         cachedContext, closed>>
       \/ CatchFinally(t, "toastdDirect",
                       [trace[t] EXCEPT !.toastdDirect = @ + 1, !.toastdFailed = @ + 1])
    /\ UNCHANGED <<sessions, messages, cache, redisOpen, req, sid, mid, sideVars>>

\* Fallback to direct Qdrant search if API is unavailable (route.ts 588-600)
ToastdDirect(t) ==
    /\ pc[t] = "toastdDirect"
    /\ \/ /\ \E tp \in getDiverseProducts(Search("toastd", Filter(t), ToastdLimit),
                                          req[t].seenBrands, ToastdLimit) :
                Diversify(t, tp)
          /\ trace' = [trace EXCEPT ![t].toastdDirect = @ + 1]
       \/ \* the fallback search throws: caught, toastdProducts stays []
          /\ Diversify(t, toastdProducts[t])
          /\ trace' = [trace EXCEPT ![t].toastdDirect = @ + 1, ![t].toastdFailed = @ + 1]
    /\ UNCHANGED <<sessions, messages, cache, redisOpen, req, sid, mid, history, intentData,
                   searchResult, toastdReq, answer, cachedContext, closed, sideVars>>

\* 6. Response Generation (route.ts 612-645)
Narrative(t) ==
    /\ pc[t] = "narrative"
    /\ \/ \E content \in NarrativeContents :
             /\ answer' = [answer EXCEPT ![t] = AnswerOf(content)]
             /\ pc' = [pc EXCEPT ![t] = "storeAssistant"]
             /\ UNCHANGED <<history, intentData, searchResult, toastdProducts, toastdReq,
                            products, cachedContext, stream, closed, trace>>
       \/ CatchFinally(t, "narrative", trace[t])
    /\ UNCHANGED <<sessions, messages, cache, redisOpen, req, sid, mid, sideVars>>

\* an UPDATE that stores the secondary products before the primary ones
StoreAssistantToastdFirst(t) ==
    /\ pc[t] = "storeAssistant"
    /\ \/ /\ messages' = UpdateMessages(mid[t], answer[t], toastdProducts[t] \o products[t])
          /\ pc' = [pc EXCEPT ![t] = "updGet"]
          /\ UNCHANGED <<stream, closed, trace, locals>>
       \/ /\ CatchFinally(t, "storeAssistant", trace[t])
          /\ UNCHANGED messages
    /\ UNCHANGED <<sessions, cache, redisOpen, req, sid, mid, sideVars>>

\* 7. Store Assistant Message (route.ts 647-652)
StoreAssistant(t) ==
    /\ pc[t] = "storeAssistant"
    /\ \/ /\ messages' = UpdateMessages(mid[t], answer[t], products[t] \o toastdProducts[t])
          /\ pc' = [pc EXCEPT ![t] = "updGet"]
          /\ UNCHANGED <<stream, closed, trace, locals>>
       \/ /\ CatchFinally(t, "storeAssistant", trace[t])
          /\ UNCHANGED messages
    /\ UNCHANGED <<sessions, cache, redisOpen, req, sid, mid, sideVars>>

\* updateSessionContext: redisClient.get (route.ts 353-358); with the cache closed
\* the turn goes on to 8. Send Final Data (route.ts 655-676)
UpdateGet(t) ==
    /\ pc[t] = "updGet"
    /\ IF redisOpen
       THEN /\ cachedContext' = [cachedContext EXCEPT ![t] = cache[sid[t]]]
            /\ pc' = [pc EXCEPT ![t] = "updSet"]
            /\ trace' = [trace EXCEPT ![t].cacheOk = TRUE]
            /\ UNCHANGED <<history, intentData, searchResult, toastdProducts, toastdReq,
                           products, answer, stream, closed>>
       ELSE SendResult(t, trace[t])
    /\ UNCHANGED <<sessions, messages, cache, redisOpen, req, sid, mid, sideVars>>

\* an update that appends to the list the cache holds at the time of the write
UpdateSetMerge(t) ==
    /\ pc[t] = "updSet"
    /\ IF redisOpen
       THEN /\ cache' = [cache EXCEPT ![sid[t]] =
                            CacheList(PushTrim(IF cache[sid[t]].present
                                               THEN cache[sid[t]].list ELSE <<>>,
                                               Pair(req[t].message, answer[t], mid[t])))]
            /\ SendResult(t, [trace[t] EXCEPT !.cacheOk = TRUE])
       ELSE /\ SendResult(t, trace[t])
            /\ UNCHANGED cache
    /\ UNCHANGED <<sessions, messages, redisOpen, req, sid, mid, sideVars>>

\* updateSessionContext: push, slice, redisClient.set (route.ts 358-366);
\* then 8. Send Final Data (route.ts 655-676)
UpdateSet(t) ==
    /\ pc[t] = "updSet"
    /\ IF redisOpen
       THEN /\ cache' = [cache EXCEPT ![sid[t]] =
                            CacheList(PushTrim(IF cachedContext[t].present
                                               THEN cachedContext[t].list ELSE <<>>,
                                               Pair(req[t].message, answer[t], mid[t])))]
            /\ SendResult(t, [trace[t] EXCEPT !.cacheOk = TRUE])
       ELSE /\ SendResult(t, trace[t])
            /\ UNCHANGED cache
    /\ UNCHANGED <<sessions, messages, redisOpen, req, sid, mid, sideVars>>

SessionIds == {ClientSid} \cup {Uuid(t) : t \in Turns}

\* the cache entry of a session reaches its time to live ({ EX: 3600 })
CacheExpire(s) ==
    /\ cache[s].present
    /\ cache' = [cache EXCEPT ![s] = CacheAbsent]
    /\ UNCHANGED <<sessions, messages, redisOpen, pc, req, sid, mid, locals, stream,
                   closed, trace, sideVars>>

\* the connection to the cache drops, and comes back
RedisDown ==
    /\ redisOpen
    /\ redisOpen' = FALSE
    /\ UNCHANGED <<sessions, messages, cache, pc, req, sid, mid, locals, stream,
                   closed, trace, sideVars>>

RedisUp ==
    /\ ~redisOpen
    /\ redisOpen' = TRUE
    /\ UNCHANGED <<sessions, messages, cache, pc, req, sid, mid, locals, stream,
                   closed, trace, sideVars>>

\* GET /api/message/chat?sessionId= (route.ts 688-727): the entries of a row
\* of the messages table; the products of the row are split by source
UserEntry(row) ==
    [id |-> <<row.id, "user">>, role |-> "user", content |-> row.user_content,
     answer |-> NULL, products |-> <<>>, toastdProducts |-> <<>>]

ParsedProducts(row) ==
    IF row.product.null THEN <<>>
    ELSE [i \in 1..Len(row.product.list) |-> Parse(row.product.list[i])]

AssistantEntry(row) ==
    [id |-> <<row.id, "assistant">>, role |-> "assistant", content |-> NoText,
     answer |-> row.assistant_content,
     products |-> SelectSeq(ParsedProducts(row), LAMBDA p : p.source # "toastd"),
     toastdProducts |-> SelectSeq(ParsedProducts(row), LAMBDA p : p.source = "toastd")]

\* result.rows.forEach(row => { messages.push(user); messages.push(assistant) })
RECURSIVE HistoryEntries(_)
HistoryEntries(rows) ==
    IF rows = <<>> THEN <<>>
    ELSE <<UserEntry(Head(rows)), AssistantEntry(Head(rows))>> \o HistoryEntries(Tail(rows))

\* SELECT ... FROM messages WHERE session_id = $1 ORDER BY created_at ASC
HistoryRows(s) == SelectSeq(messages, LAMBDA r : r.session_id = s)

\* responses of the history endpoint; sessionId is the parameter of the request
NoResponse == [status |-> 0, sessionId |-> NoId, messages |-> <<>>]
HistoryResponse(status, s, entries) == [status |-> status, sessionId |-> s, messages |-> entries]

\* export async function GET(req): asked between the turns of a client
History(s) ==
    /\ InFlight = {}
    /\ \/ /\ s = NoId
          /\ histResp' = HistoryResponse(400, NoId, <<>>)
       \/ /\ s # NoId
          /\ histResp' = HistoryResponse(200, s, HistoryEntries(HistoryRows(s)))
       \/ /\ s # NoId
          /\ histResp' = HistoryResponse(500, NoId, <<>>)
    /\ UNCHANGED <<turnVars, divVars, fbVars, guidedVars>>

(***************************************************************************)
(* The feedback endpoint: POST /api/feedback (part_013)                    *)
(***************************************************************************)
MaxFeedback == 3    \* feedback rows of one run

\* bodies of feedback requests: a field left out is NoId or NoNum
FeedbackBodies ==
    [sessionId : {NoId, ClientSid, Uuid(1)}, messageId : {NoId}, productId : {NoId, 11, 12},
     rating : {NoNum, 0, 1, 5, 6}]
NoBody == [sessionId |-> NoId, messageId |-> NoId, productId |-> NoId, rating |-> NoNum]

\* a check that forgets the rating
MissingFieldsNoRating(body) == body.sessionId = NoId \/ body.productId = NoId

\* if (!sessionId || !productId || !rating)
MissingFields(body) ==
    body.sessionId = NoId \/ body.productId = NoId \/ body.rating \in {NoNum, 0}

\* the constraints of the feedback table (part_007 105-115): session_id and
\* message_id reference rows, product_id and rating are NOT NULL, rating is 1..5
InsertAccepted(body) ==
    /\ SessionRows(body.sessionId) # {}
    /\ body.messageId = NoId \/ \E i \in 1..Len(messages) : messages[i].id = body.messageId
    /\ body.productId # NoId
    /\ body.rating \in 1..5

FeedbackRow(body) ==
    [session_id |-> body.sessionId, message_id |-> body.messageId,
     product_id |-> body.productId, rating |-> body.rating]

\* export async function POST(req) of the feedback route
Feedback(body) ==
    /\ Len(feedback) < MaxFeedback
    /\ fbReq' = body
    /\ IF MissingFields(body)
       THEN /\ fbResp' = 400
            /\ UNCHANGED feedback
       ELSE \/ /\ InsertAccepted(body)
               /\ feedback' = Append(feedback, FeedbackRow(body))
               /\ fbResp' = 200
            \/ \* pool.query throws: a constraint is violated or the store fails
               /\ fbResp' = 500
               /\ UNCHANGED feedback
    /\ UNCHANGED <<turnVars, divVars, histVars, guidedVars>>

(***************************************************************************)
(* The guided search endpoint (part_014) and its options (part_018)        *)
(***************************************************************************)
\* export const RECIPIENTS (some), a recipient that is not offered, none
Recipients == {"Girlfriend", "Boyfriend", "Mom", "Boss"}
NoRecipient == ""

\* export const BUDGET_OPTIONS
BUDGET_OPTIONS == <<"Under 1k", "2k", "2.5k", "3k", "5k", "6k", "6k+">>
NoBudget == ""

\* recipient.toLowerCase()
ToLowerCase(str) ==
    CASE str = "Girlfriend" -> "girlfriend"
      [] str = "Boyfriend" -> "boyfriend"
      [] str = "Mom" -> "mom"
      [] str = "Boss" -> "boss"
      [] OTHER -> str

\* COLLECTION_MAP[recipient.toLowerCase()] || recipient.toLowerCase()
CollectionName(recipient) ==
    LET key == ToLowerCase(recipient)
    IN CASE key = "boyfriend" -> "boyfriends"
         [] key = "girlfriend" -> "girlfriends"
         [] OTHER -> key

\* the collections of the vector index
ExistingCollections == {"products", "girlfriends", "boyfriends", "toastd"}

GuidedLimit == 20

\* let min = 0; let max = 1000000; if (budget === 'under 1k') ... (part_014 30-47)
GuidedRange(budget) ==
    CASE budget = "under 1k" -> [gte |-> 0, lte |-> 1000]
      [] budget = "2k" -> [gte |-> 1000, lte |-> 2000]
      [] budget = "2.5k" -> [gte |-> 2000, lte |-> 2500]
      [] budget = "3k" -> [gte |-> 2500, lte |-> 3000]
      [] budget = "5k" -> [gte |-> 3000, lte |-> 5000]
      [] budget = "6k" -> [gte |-> 5000, lte |-> 6000]
      [] budget = "6k+" -> [gte |-> 6000, lte |-> PriceCap]
      [] OTHER -> [gte |-> 0, lte |-> PriceCap]

\* the filter of the guided search: a price range when a budget is given
GuidedFilter(budget) ==
    IF budget # NoBudget
    THEN [range |-> TRUE, gte |-> GuidedRange(budget).gte, lte |-> GuidedRange(budget).lte,
          must_not |-> {}]
    ELSE [range |-> FALSE, gte |-> 0, lte |-> PriceCap, must_not |-> {}]

\* `${aestheticsStr} ${productType || ''}`.trim() || "gift"
EffectiveQuery(body) ==
    IF body.aesthetics = "" /\ body.productType = "" THEN "gift"
    ELSE <<body.aesthetics, body.productType>>

GuidedBodies ==
    [recipient : Recipients \cup {NoRecipient}, productType : {"", "mug"},
     aesthetics : {"", "Boho"}, budget : Range(BUDGET_OPTIONS) \cup {NoBudget}]
NoGuidedBody == [recipient |-> NoRecipient, productType |-> "", aesthetics |-> "", budget |-> NoBudget]
NoCall == [called |-> FALSE, collection |-> "", filter |-> GuidedFilter(NoBudget), limit |-> 0]
GuidedCall(body) ==
    [called |-> TRUE, collection |-> CollectionName(body.recipient),
     filter |-> GuidedFilter(body.budget), limit |-> GuidedLimit]

\* searchResult.map(item => ({id: item.id, ...item.payload, score}))
GuidedProducts(call) == MapProduct(Search(call.collection, call.filter, call.limit))

\* NextResponse.json({products}) / NextResponse.json({error: ...}, {status})
GuidedResponse(status, ps, err) == [status |-> status, products |-> ps, error |-> err]

\* error.message of the errors the providers throw
NotFoundCollection == "Not found: Collection"
EmbeddingFailed == "embedding failed"
SearchFailed == "search failed"

\* a catch that answers 500 whatever the error is
GuidedCatchAll500(message) == GuidedResponse(500, <<>>, message)

\* catch (error): an empty list when the collection does not exist, else 500
\* (part_014 77-84)
GuidedCatch(message) ==
    IF message = NotFoundCollection THEN GuidedResponse(200, <<>>, "")
    ELSE GuidedResponse(500, <<>>, message)

\* export async function POST(req) of the guided search route
Guided(body) ==
    /\ gReq' = body
    /\ IF body.recipient = NoRecipient
       THEN /\ gCall' = NoCall
            /\ gResp' = GuidedResponse(400, <<>>, "Recipient is required")
       ELSE \/ \* getEmbedding throws
               /\ gCall' = NoCall
               /\ gResp' = GuidedCatch(EmbeddingFailed)
            \/ \* qdrantClient.search
               /\ gCall' = GuidedCall(body)
               /\ \/ IF CollectionName(body.recipient) \in ExistingCollections
                     THEN gResp' = GuidedResponse(200, GuidedProducts(GuidedCall(body)), "")
                     ELSE gResp' = GuidedCatch(NotFoundCollection)
                  \/ gResp' = GuidedCatch(SearchFailed)
    /\ UNCHANGED <<turnVars, divVars, histVars, fbVars>>

EndpointsIdle ==
    /\ histResp = NoResponse
    /\ fbReq = NoBody
    /\ fbResp = 0
    /\ feedback = <<>>
    /\ gReq = NoGuidedBody
    /\ gCall = NoCall
    /\ gResp = GuidedResponse(0, <<>>, "")

DivIdle ==
    /\ dItems = <<>>
    /\ dSeen = {}
    /\ dLimit = 1
    /\ dOut = <<>>
    /\ dPc = "off"

\* no request received, nothing cached
TurnsIdle ==
    /\ cache = [s \in SessionIds |-> CacheAbsent]
    /\ redisOpen = TRUE
    /\ pc = [t \in Turns |-> "idle"]
    /\ req = [t \in Turns |-> NoReq]
    /\ sid = [t \in Turns |-> NoId]
    /\ mid = [t \in Turns |-> NoId]
    /\ history = [t \in Turns |-> <<>>]
    /\ intentData = [t \in Turns |-> EmptyIntent]
    /\ searchResult = [t \in Turns |-> <<>>]
    /\ toastdProducts = [t \in Turns |-> <<>>]
    /\ toastdReq = [t \in Turns |-> ToastdRequest(NoText, EmptyIntent)]
    /\ products = [t \in Turns |-> <<>>]
    /\ answer = [t \in Turns |-> NULL]
    /\ cachedContext = [t \in Turns |-> CacheAbsent]
    /\ stream = [t \in Turns |-> <<>>]
    /\ closed = [t \in Turns |-> FALSE]
    /\ trace = [t \in Turns |-> NoTrace]

\* the durable store empty
StoreEmpty == sessions = {} /\ messages = <<>>

TurnIdle == StoreEmpty /\ TurnsIdle

\* the store and the cache empty, no request received
Init == TurnIdle /\ DivIdle /\ EndpointsIdle

Step(t) ==
    \/ Receive(t)
    \/ SessionResolve(t)
    \/ SessionInsert(t)
    \/ StoreUser(t)
    \/ ContextGet(t)
    \/ ContextDb(t)
    \/ ContextSet(t)
    \/ Intent(t)
    \/ Embed(t)
    \/ PrimarySearch(t)
    \/ FallbackSearch(t)
    \/ ToastdCall(t)
    \/ ToastdDirect(t)
    \/ Narrative(t)
    \/ StoreAssistant(t)
    \/ UpdateGet(t)
    \/ UpdateSet(t)

Next ==
    \/ \E t \in Turns : Step(t)
    \/ \E s \in SessionIds : CacheExpire(s)
    \/ RedisDown
    \/ RedisUp
    \/ \E s \in SessionIds \cup {NoId} : History(s)
    \/ \E body \in FeedbackBodies : Feedback(body)
    \/ \E body \in GuidedBodies : Guided(body)

\* any number of turns at a time, every input, every failure
Spec == Init /\ [][Next]_vars

(***************************************************************************)
(* One turn, with every input and every failure                            *)
(***************************************************************************)
NextTurn ==
    \/ Step(1)
    \/ \E s \in SessionIds : CacheExpire(s)
    \/ RedisDown
    \/ RedisUp

SpecTurn == Init /\ [][NextTurn]_vars

\* the same, every await of the turn returning or throwing in the end
SpecTurnFair == Init /\ [][NextTurn]_vars /\ WF_vars(Step(1))

(***************************************************************************)
(* One turn against a store that may hold the client's session already     *)
(***************************************************************************)
\* the store after an earlier request of the client created its session
\* (and stored no message: its INSERT INTO messages failed)
StoreWithSession ==
    /\ sessions \in {{}, {NewSessionRow(ClientSid, ShortMessage)}}
    /\ messages = <<>>

InitStored == StoreWithSession /\ TurnsIdle /\ DivIdle /\ EndpointsIdle

SpecStored == InitStored /\ [][NextTurn]_vars

\* feedback requests against that store
NextFeedback == \E body \in FeedbackBodies : Feedback(body)

SpecFeedback == InitStored /\ [][NextFeedback]_vars

\* guided searches
NextGuided == \E body \in GuidedBodies : Guided(body)

SpecGuided == Init /\ [][NextGuided]_vars

(***************************************************************************)
(* Turns one after another: a client that waits for each answer            *)
(***************************************************************************)
\* the inputs and failures of the runs with several turns: the short message,
\* an intent with no preferences, a completion that answers, and of the steps
\* that can throw once the user row is stored, the intent call
LeanFailures == {NULL, "intent"}
LeanIntents == {EmptyIntent, PartialIntent}

Lean(t) ==
    /\ req[t].message \in {NoText, ShortMessage}
    /\ trace[t].failedAt \in LeanFailures
    /\ intentData[t] \in LeanIntents
    /\ answer[t] \in {NULL, Reply}

\* the steps of the turns received
SeqSteps ==
    \/ \E t \in Turns : SessionResolve(t) /\ Lean(t)'
    \/ \E t \in Turns : SessionInsert(t) /\ Lean(t)'
    \/ \E t \in Turns : StoreUser(t) /\ Lean(t)'
    \/ \E t \in Turns : ContextGet(t) /\ Lean(t)'
    \/ \E t \in Turns : ContextDb(t) /\ Lean(t)'
    \/ \E t \in Turns : ContextSet(t) /\ Lean(t)'
    \/ \E t \in Turns : Intent(t) /\ Lean(t)'
    \/ \E t \in Turns : Embed(t) /\ Lean(t)'
    \/ \E t \in Turns : PrimarySearch(t) /\ Lean(t)'
    \/ \E t \in Turns : FallbackSearch(t) /\ Lean(t)'
    \/ \E t \in Turns : ToastdCall(t) /\ Lean(t)'
    \/ \E t \in Turns : ToastdDirect(t) /\ Lean(t)'
    \/ \E t \in Turns : Narrative(t) /\ Lean(t)'
    \/ \E t \in Turns : StoreAssistant(t) /\ Lean(t)'
    \/ \E t \in Turns : UpdateGet(t) /\ Lean(t)'
    \/ \E t \in Turns : UpdateSet(t) /\ Lean(t)'

NextSeq ==
    \/ \E t \in Turns : InFlight = {} /\ Receive(t) /\ Lean(t)'
    \/ SeqSteps

SpecSeq == Init /\ [][NextSeq]_vars

\* a first request of a client: no exclusions, not a reload
Plain(t) == req[t].excludeIds = {} /\ ~req[t].isReload

\* a client that sends first requests one after another and then asks for
\* the history of its sessions
NextHist ==
    \/ \E t \in Turns : /\ InFlight = {} /\ histResp = NoResponse
                        /\ Receive(t) /\ Lean(t)' /\ Plain(t)'
    \/ SeqSteps
    \/ \E s \in SessionIds \cup {NoId} : History(s)

SpecHist == Init /\ [][NextHist]_vars

(***************************************************************************)
(* First requests one after another, the cache entries expiring in between *)
(***************************************************************************)
NextCtx ==
    \/ \E t \in Turns : InFlight = {} /\ Receive(t) /\ Lean(t)' /\ Plain(t)'
    \/ SeqSteps
    \/ \E s \in SessionIds : InFlight = {} /\ CacheExpire(s)

SpecCtx == Init /\ [][NextCtx]_vars

(***************************************************************************)
(* Turns that overlap: requests arrive while others are being processed    *)
(***************************************************************************)
\* as Lean, and the INSERT of a session row may fail: two turns that both
\* found no row for the session id insert the same primary key
LeanConc(t) ==
    /\ req[t].message \in {NoText, ShortMessage}
    /\ trace[t].failedAt \in LeanFailures \cup {"sessionInsert"}
    /\ intentData[t] \in LeanIntents
    /\ answer[t] \in {NULL, Reply}

Overlapping == 1..Min(MaxInFlight, MaxTurns)

NextConc ==
    \/ \E t \in Overlapping : Receive(t) /\ LeanConc(t)' /\ Plain(t)'
    \/ \E t \in Overlapping : SessionResolve(t) /\ LeanConc(t)'
    \/ \E t \in Overlapping : SessionInsert(t) /\ LeanConc(t)'
    \/ \E t \in Overlapping : StoreUser(t) /\ LeanConc(t)'
    \/ \E t \in Overlapping : ContextGet(t) /\ LeanConc(t)'
    \/ \E t \in Overlapping : ContextDb(t) /\ LeanConc(t)'
    \/ \E t \in Overlapping : ContextSet(t) /\ LeanConc(t)'
    \/ \E t \in Overlapping : Intent(t) /\ LeanConc(t)'
    \/ \E t \in Overlapping : Embed(t) /\ LeanConc(t)'
    \/ \E t \in Overlapping : PrimarySearch(t) /\ LeanConc(t)'
    \/ \E t \in Overlapping : FallbackSearch(t) /\ LeanConc(t)'
    \/ \E t \in Overlapping : ToastdCall(t) /\ LeanConc(t)'
    \/ \E t \in Overlapping : ToastdDirect(t) /\ LeanConc(t)'
    \/ \E t \in Overlapping : Narrative(t) /\ LeanConc(t)'
    \/ \E t \in Overlapping : StoreAssistant(t) /\ LeanConc(t)'
    \/ \E t \in Overlapping : UpdateGet(t) /\ LeanConc(t)'
    \/ \E t \in Overlapping : UpdateSet(t) /\ LeanConc(t)'

SpecConc == Init /\ [][NextConc]_vars

(***************************************************************************)
(* The diversity merge on its own: one call on a generated pool            *)
(***************************************************************************)
DivInit ==
    /\ \/ /\ \E n \in 0..MaxPool : \E bs \in BrandLists(n) : dItems = PoolOf(bs)
          /\ dSeen \in SUBSET Brands
          /\ dLimit \in 1..MaxLimit
       \/ /\ dItems = ExamplePool
          /\ dSeen = {}
          /\ dLimit = ExampleLimit
    /\ dOut = <<>>
    /\ dPc = "call"

\* one call of getDiverseProducts
DivCall ==
    /\ dPc = "call"
    /\ dOut' \in getDiverseProducts(dItems, dSeen, dLimit)
    /\ dPc' = "ret"
    /\ UNCHANGED <<dItems, dSeen, dLimit>>
    /\ UNCHANGED <<turnVars, endpointVars>>

InitDiv == TurnIdle /\ DivInit /\ EndpointsIdle

SpecDiv == InitDiv /\ [][DivCall]_vars

(***************************************************************************)
(* Properties                                                              *)
(***************************************************************************)
Last(s) == s[Len(s)]
Terminal(e) == e.type \in {"result", "error"}
TypeCount(s, type) == Cardinality({i \in 1..Len(s) : s[i].type = type})
Done(t) == pc[t] = "done"
HasResult(t) == TypeCount(stream[t], "result") > 0
ResultOf(t) == Last(stream[t]).data
RowsOf(m) == {i \in 1..Len(messages) : messages[i].id = m}

\* C1: the closed stream of every turn holds exactly one terminal event (one
\* result or one error), that event is its last, and only status events come
\* before it; a stream not yet closed holds status events only.
StreamTerminal ==
    \A t \in Turns :
        /\ closed[t] =>
              /\ Len(stream[t]) >= 1
              /\ Terminal(Last(stream[t]))
              /\ TypeCount(stream[t], "result") + TypeCount(stream[t], "error") = 1
              /\ \A i \in 1..(Len(stream[t]) - 1) : stream[t][i].type = "status"
        /\ ~closed[t] => \A i \in 1..Len(stream[t]) : stream[t][i].type = "status"
        /\ closed[t] <=> Done(t)

\* a stream closed after status events and a result, and no error
StreamTerminalWitness ==
    \E t \in Turns :
        /\ closed[t]
        /\ Len(stream[t]) > 1
        /\ Last(stream[t]).type = "result"

\* C2: every message row has a null assistant_content exactly when its
\* product column is null, in every state, with turns that fail and turns
\* that overlap.
MessageInvariant ==
    \A i \in 1..Len(messages) :
        messages[i].assistant_content = NULL <=> messages[i].product = ProductNull

\* a row completed and a row left by a failed turn while another turn runs
MessageInvariantWitness ==
    /\ \E i \in 1..Len(messages) : messages[i].assistant_content # NULL
    /\ \E t \in Turns : /\ Done(t)
                        /\ trace[t].failedAt = "intent"
                        /\ \E i \in RowsOf(mid[t]) : messages[i].product = ProductNull
    /\ InFlight # {}

\* the brands of a pool of hits, and of a list of returned products
PoolBrands(items) == {BrandOf(Product(items[i])) : i \in 1..Len(items)}
OutBrands(ps) == {BrandOf(ps[i]) : i \in 1..Len(ps)}

\* C3: with seenBrands empty, a pool of at least 4 distinct brands and a limit
\* of at least 4, every output of the diversity merge holds at least
\* min(4, distinct brands of the pool) distinct brands; for the pool with
\* brands [A,A,B,A,C,B,D] and limit 5 it holds all of A, B, C and D.
DiversityInvariant ==
    (dPc = "ret" /\ dSeen = {} /\ Cardinality(PoolBrands(dItems)) >= 4 /\ dLimit >= 4) =>
        /\ Cardinality(OutBrands(dOut)) >= Min(4, Cardinality(PoolBrands(dItems)))
        /\ (dItems = ExamplePool /\ dLimit = ExampleLimit) =>
              {"A", "B", "C", "D"} \subseteq OutBrands(dOut)

\* C5: whenever the pool holds an item of a brand not in seenBrands, every
\* output of the diversity merge (limit >= 1) holds an item of a brand not in
\* seenBrands.
NewBrandPriority ==
    (dPc = "ret" /\ dLimit >= 1 /\ PoolBrands(dItems) \ dSeen # {}) =>
        OutBrands(dOut) \ dSeen # {}

\* the steps of a turn whose exception reaches the catch block of POST
TurnSteps ==
    {"body", "sessionInsert", "sessionCheck", "storeUser", "contextDb", "intentParse",
     "intent", "embedding", "search", "fallbackSearch", "narrative", "storeAssistant"}

\* the embedding call, the two completion calls, the primary index searches
AbortSteps == {"intent", "embedding", "search", "fallbackSearch", "narrative"}

\* the row of turn t as INSERT left it
UserRow(t) == NewMessageRow(mid[t], sid[t], req[t].message, req[t].isReload)

\* the pairs of the context cache that stand for the row of turn t
CachedPairsOf(t) ==
    UNION {{k \in 1..Len(cache[s].list) : cache[s].list[k].of = mid[t]} : s \in SessionIds}

\* C7: when the embedding call, a completion call or a primary index search
\* fails, the stream holds exactly one error event and no result event, the
\* user row of the turn stays in the store with null assistant content and
\* null products, and no cache entry holds the turn.
TurnFailure ==
    \A t \in Turns :
        (Done(t) /\ trace[t].failedAt \in AbortSteps) =>
            /\ TypeCount(stream[t], "error") = 1
            /\ TypeCount(stream[t], "result") = 0
            /\ RowsOf(mid[t]) # {}
            /\ \A i \in RowsOf(mid[t]) : messages[i] = UserRow(t)
            /\ CachedPairsOf(t) = {}

\* a turn that failed at the narrative completion, its context cached before
TurnFailureWitness ==
    \E t \in Turns :
        /\ Done(t)
        /\ trace[t].failedAt = "narrative"
        /\ cache[sid[t]].present
        /\ RowsOf(mid[t]) # {}

\* the row of turn t as the UPDATE of a turn with this result leaves it
WrittenRow(t) ==
    UpdateRow(UserRow(t), ResultOf(t).assistantResponse,
              ResultOf(t).products \o ResultOf(t).toastdProducts)

\* C8: no failure of a cache read or write produces an error event (every
\* error event comes from a step outside the cache helpers); a turn that
\* nothing else fails ends with a result event and with its row written from
\* that result, also when every cache operation of the turn failed.
CacheSwallowed ==
    \A t \in Turns :
        Done(t) =>
            /\ Last(stream[t]).type = "error" => Last(stream[t]).message \in TurnSteps
            /\ trace[t].failedAt = NULL =>
                  /\ HasResult(t)
                  /\ RowsOf(mid[t]) # {}
                  /\ \A i \in RowsOf(mid[t]) : messages[i] = WrittenRow(t)
                  /\ SessionRows(sid[t]) # {}

\* a turn with a result, none of whose cache operations succeeded
CacheSwallowedWitness ==
    \E t \in Turns :
        /\ Done(t)
        /\ HasResult(t)
        /\ ~trace[t].cacheOk
        /\ ~cache[sid[t]].present
        /\ Len(ResultOf(t).products) > 0

\* turn t is past the secondary search
PastSecondary(t) ==
    \/ pc[t] \in {"narrative", "storeAssistant", "updGet", "updSet"}
    \/ Done(t) /\ trace[t].failedAt \in {NULL, "narrative", "storeAssistant"}

\* the filter of the turn, from the preferences its result carries
ResultFilter(t) ==
    BuildFilter([EmptyIntent EXCEPT !.hasPrefs = TRUE, !.preferences = ResultOf(t).preferences],
                req[t].excludeIds)

\* what the primary retrieval of turn t can have produced
PrimaryProducts(t) ==
    getDiverseProducts(Search(Last(trace[t].searched), ResultFilter(t), PoolLimit),
                       req[t].seenBrands, DisplayLimit)

\* C9: when the call to the secondary provider fails the secondary catalog is
\* searched directly exactly once (and not otherwise); when that fails too,
\* the turn, if no later step fails, ends with a result event whose secondary
\* list is empty and whose primary products are those of the primary retrieval.
SecondaryDegrades ==
    \A t \in Turns :
        /\ trace[t].toastdApi <= 1
        /\ trace[t].toastdDirect <= 1
        /\ PastSecondary(t) =>
              /\ trace[t].toastdApi = 1
              /\ trace[t].toastdFailed >= 1 <=> trace[t].toastdDirect = 1
        /\ (Done(t) /\ trace[t].toastdFailed = 2
                    /\ trace[t].failedAt \notin {"narrative", "storeAssistant"}) =>
              /\ HasResult(t)
              /\ ResultOf(t).toastdProducts = <<>>
              /\ ResultOf(t).products \in PrimaryProducts(t)

\* a result with primary products after both secondary calls failed
SecondaryDegradesWitness ==
    \E t \in Turns :
        /\ Done(t)
        /\ trace[t].toastdFailed = 2
        /\ HasResult(t)
        /\ Len(ResultOf(t).products) > 0

\* C10: a turn whose intent completion is not parseable JSON, or JSON lacking
\* fields, does not end in an error event raised by reading it; with the
\* fields absent the query is the raw message, the collection searched is
\* 'products', and no price bound filters the hits.
IntentTolerant ==
    \A t \in Turns :
        /\ trace[t].failedAt # "intentParse"
        /\ (pc[t] = "search" /\ intentData[t] = EmptyIntent) =>
              /\ SearchQuery(intentData[t], req[t].message) = req[t].message
              /\ TargetCollection(intentData[t]) = "products"
              /\ ~Filter(t).range
        /\ (pc[t] = "toastd" /\ intentData[t] = EmptyIntent) =>
              /\ trace[t].searched = <<"products">>
              /\ searchResult[t] = Take(Collection("products"), PoolLimit)

\* the {user, assistant} pairs of a context list
RECURSIVE Pairs(_)
Pairs(list) ==
    IF list = <<>> THEN <<>>
    ELSE <<[user |-> Head(list).user, assistant |-> Head(list).assistant]>> \o Pairs(Tail(list))

\* C4: a turn sent with excludeIds (the ids of every item an earlier turn
\* returned, products and toastdProducts together) returns no item, in
\* products or in toastdProducts, whose id is in excludeIds.
ReloadExclusion ==
    \A t \in Turns :
        (Done(t) /\ HasResult(t)) => ResultIds(ResultOf(t)) \cap req[t].excludeIds = {}

\* C6: whenever getSessionContext is served from the populated cache, the list
\* it returns is the list of {user, assistant} pairs it would rebuild from
\* the durable store with the cache disabled.
ContextFallbackEquivalence ==
    \A t \in Turns :
        (pc[t] = "ctxGet" /\ redisOpen /\ cache[sid[t]].present) =>
            Pairs(cache[sid[t]].list) = Pairs(DbContext(sid[t], mid[t]))

\* turn t is past the primary retrieval
PastSearch(t) == pc[t] \in {"toastd", "toastdDirect"} \/ PastSecondary(t)

\* what a search of the index with these arguments returns
Found(q) == Search(q.collection, q.filter, q.limit)

\* the ids of a list of items
IdsOf(items) == {items[i].id : i \in 1..Len(items)}

\* C11: 'products' is searched as a fallback exactly when the targeted search
\* returned nothing and the target is not 'products'; the fallback search has
\* the vector, filter and limit of the targeted one; when it finds an item the
\* primary products of the result are items of 'products', not an empty list.
FallbackPolicy ==
    \A t \in Turns :
        LET qs == trace[t].queries
        IN /\ Len(qs) <= 2
           /\ Len(qs) = 2 =>
                 /\ qs[1].collection # "products"
                 /\ Found(qs[1]) = <<>>
                 /\ qs[2] = [qs[1] EXCEPT !.collection = "products"]
           /\ (PastSearch(t) /\ Len(qs) = 1) =>
                 (qs[1].collection = "products" \/ Found(qs[1]) # <<>>)
           /\ (Done(t) /\ HasResult(t) /\ Len(qs) = 2 /\ Found(qs[2]) # <<>>) =>
                 /\ ResultOf(t).products # <<>>
                 /\ IdsOf(ResultOf(t).products) \subseteq IdsOf(Found(qs[2]))

\* a result whose primary products come from the fallback search
FallbackPolicyWitness ==
    \E t \in Turns :
        /\ Done(t)
        /\ HasResult(t)
        /\ Len(trace[t].queries) = 2
        /\ ResultOf(t).products # <<>>

\* turn t has resolved its session
SessionResolved(t) ==
    \/ pc[t] \notin {"idle", "session", "sessionInsert", "done"}
    \/ Done(t) /\ trace[t].failedAt \notin {"body", "sessionCheck", "sessionInsert"}

\* the number of characters of a text
RECURSIVE TextLen(_)
TextLen(txt) == IF txt = <<>> THEN 0 ELSE Head(txt).n + TextLen(Tail(txt))

\* C12: once a turn has resolved its session exactly one session row has its
\* session id, and the result event carries that id (the supplied one when
\* one was supplied); the step that resolves the session inserts a row (named
\* by the first 50 characters of the message, owned by guestId) exactly when
\* no id was supplied or the supplied id had no row, and otherwise leaves the
\* session rows as they were.
SessionResolveCorrect ==
    /\ [](\A t \in Turns :
            SessionResolved(t) =>
                /\ Cardinality(SessionRows(sid[t])) = 1
                /\ req[t].sessionId # NoId => sid[t] = req[t].sessionId
                /\ (Done(t) /\ HasResult(t)) => ResultOf(t).sessionId = sid[t])
    /\ [][\A t \in Turns :
            (pc[t] \in {"session", "sessionInsert"} /\ pc'[t] = "storeUser") =>
                LET had == {r \in sessions : r.id = sid'[t]}
                    row == [id |-> sid'[t], guest_id |-> GuestId,
                            session_name |-> Substring0(req[t].message, 50)]
                IN /\ TextLen(row.session_name) = Min(50, TextLen(req[t].message))
                   /\ IF req[t].sessionId = NoId \/ had = {}
                      THEN had = {} /\ sessions' = sessions \cup {row}
                      ELSE sessions' = sessions]_vars

\* a result for a long message on a session that existed under another name
SessionResolveWitness ==
    \E t \in Turns :
        /\ Done(t)
        /\ HasResult(t)
        /\ req[t].message = LongMessage
        /\ ResultOf(t).sessionId = ClientSid
        /\ NewSessionRow(ClientSid, ShortMessage) \in sessions

\* the entries a list of rows stands for: each row its user entry, followed by
\* its assistant entry when assistant content was persisted
RECURSIVE ExpectedEntries(_)
ExpectedEntries(rows) ==
    IF rows = <<>> THEN <<>>
    ELSE <<[id |-> <<Head(rows).id, "user">>, content |-> Head(rows).user_content,
            answer |-> NULL]>>
         \o (IF Head(rows).assistant_content # NULL
             THEN <<[id |-> <<Head(rows).id, "assistant">>, content |-> NoText,
                     answer |-> Head(rows).assistant_content]>>
             ELSE <<>>)
         \o ExpectedEntries(Tail(rows))

\* the row, role and text of the entries of a response
Outline(entries) ==
    [i \in 1..Len(entries) |->
        [id |-> entries[i].id, content |-> entries[i].content, answer |-> entries[i].answer]]

\* C13: the history endpoint answers, for a session, with the entries of the
\* rows of that session in creation order, each row giving its user entry
\* and then its assistant entry (2n entries for n completed turns); a row
\* without persisted assistant content gives no assistant entry; rows of
\* other sessions do not appear.
HistoryOrder ==
    [][(histResp' # histResp /\ histResp'.status = 200) =>
          Outline(histResp'.messages) = ExpectedEntries(HistoryRows(histResp'.sessionId))]_vars

\* turn t reloads turn u: the same message on the same session, isReload
\* set, no excludeIds, sent right after u
Reloads(t, u) ==
    /\ u = t - 1
    /\ req[t].isReload /\ ~req[u].isReload
    /\ req[t].excludeIds = {}
    /\ req[t].message = req[u].message
    /\ req[t].sessionId # NoId
    /\ sid[u] = req[t].sessionId

\* C14: a reload turn without excludeIds returns primary products none of
\* whose ids were among the primary products of the turn it reloads.
ReloadFresh ==
    \A t \in Turns : \A u \in Turns :
        (Done(t) /\ Done(u) /\ HasResult(t) /\ HasResult(u) /\ Reloads(t, u)) =>
            IdsOf(ResultOf(t).products) \cap IdsOf(ResultOf(u).products) = {}

\* a step of the feedback endpoint
FeedbackStep == <<fbReq, fbResp, feedback>>' # <<fbReq, fbResp, feedback>>

\* C15 as stated: a feedback request missing sessionId, productId or rating
\* is answered 400 and inserts no row; a request with all three inserts
\* exactly one feedback row.
FeedbackInserts ==
    [][FeedbackStep =>
          IF fbReq'.sessionId = NoId \/ fbReq'.productId = NoId \/ fbReq'.rating = NoNum
          THEN fbResp' = 400 /\ feedback' = feedback
          ELSE Len(feedback') = Len(feedback) + 1]_vars

\* C15, amended: a feedback request missing sessionId, productId or rating
\* (a rating of 0 counts as missing) is answered 400 and inserts no row; a
\* request with all three either inserts exactly one row, made of its
\* fields, and is answered with success, or, when the INSERT fails (as it
\* does for a rating outside 1..5 or an unknown session), is answered 500
\* and inserts no row.
FeedbackInsertsOrFails ==
    [][FeedbackStep =>
          IF fbReq'.sessionId = NoId \/ fbReq'.productId = NoId \/ fbReq'.rating \in {NoNum, 0}
          THEN fbResp' = 400 /\ feedback' = feedback
          ELSE \/ /\ fbResp' = 200
                  /\ Len(feedback') = Len(feedback) + 1
                  /\ SubSeq(feedback', 1, Len(feedback)) = feedback
                  /\ Last(feedback').session_id = fbReq'.sessionId
                  /\ Last(feedback').product_id = fbReq'.productId
                  /\ Last(feedback').rating = fbReq'.rating
                  /\ fbReq'.rating \in 1..5
               \/ /\ fbResp' = 500
                  /\ feedback' = feedback]_vars

\* a request with all three fields and a rating of 6 answered 500, after a
\* request that inserted a row
FeedbackWitness ==
    /\ fbResp = 500
    /\ fbReq.rating = 6 /\ fbReq.sessionId = ClientSid /\ fbReq.productId # NoId
    /\ Len(feedback) = 1

BudgetTable(budget) ==
    CASE budget = "Under 1k" -> [gte |-> 0, lte |-> 1000]
      [] budget = "2k" -> [gte |-> 1000, lte |-> 2000]
      [] budget = "2.5k" -> [gte |-> 2000, lte |-> 2500]
      [] budget = "3k" -> [gte |-> 2500, lte |-> 3000]
      [] budget = "5k" -> [gte |-> 3000, lte |-> 5000]
      [] budget = "6k" -> [gte |-> 5000, lte |-> 6000]
      [] budget = "6k+" -> [gte |-> 6000, lte |-> 1000000]

\* C17: for every budget of BUDGET_OPTIONS the guided search filters by the
\* price range of that option (Under 1k -> [0,1000], ..., 6k+ -> [6000,
\* 1000000]); with no budget it applies no price filter.
GuidedBudgetTable ==
    gCall.called =>
        IF gReq.budget = NoBudget THEN ~gCall.filter.range
        ELSE /\ gCall.filter.range
             /\ gCall.filter.gte = BudgetTable(gReq.budget).gte
             /\ gCall.filter.lte = BudgetTable(gReq.budget).lte

\* the status events that mark the steps of a turn, in the order of POST
StepStatuses == <<"Thinking...", "Analyzing your request...", "Searching in", "Found">>

\* the step a status event marks ("" for the statuses between the steps)
StepStatus(e) ==
    IF e.message \in {"Found relevant products.", "No matching products found."} THEN "Found"
    ELSE IF e.message \in Range(StepStatuses) THEN e.message
    ELSE ""

RECURSIVE StepsMarked(_)
StepsMarked(s) ==
    IF s = <<>> THEN <<>>
    ELSE IF Head(s).type = "status" /\ StepStatus(Head(s)) # ""
         THEN <<StepStatus(Head(s))>> \o StepsMarked(Tail(s))
         ELSE StepsMarked(Tail(s))

\* the number of step statuses a turn has sent when it is at a position, or
\* when it failed at a step
StatusesAt(t) ==
    IF pc[t] \in {"idle", "session", "sessionInsert", "storeUser"} THEN 0
    ELSE IF pc[t] \in {"ctxGet", "ctxDb", "ctxSet"} THEN 1
    ELSE IF pc[t] \in {"intent", "embed"} THEN 2
    ELSE IF pc[t] \in {"search", "fallback", "toastd", "toastdDirect"} THEN 3
    ELSE IF pc[t] \in {"narrative", "storeAssistant", "updGet", "updSet"} THEN 4
    ELSE IF trace[t].failedAt \in {"body", "sessionInsert", "sessionCheck", "storeUser"} THEN 0
    ELSE IF trace[t].failedAt \in {"contextDb"} THEN 1
    ELSE IF trace[t].failedAt \in {"intent", "intentParse", "embedding"} THEN 2
    ELSE IF trace[t].failedAt \in {"search", "fallbackSearch"} THEN 3
    ELSE 4

ResultPersisted ==
    \A t \in Turns :
        HasResult(t) =>
            LET d == ResultOf(t)
                all == d.products \o d.toastdProducts
            IN /\ Cardinality(RowsOf(d.messageId)) = 1
               /\ \A i \in RowsOf(d.messageId) :
                     /\ messages[i].assistant_content = d.assistantResponse
                     /\ messages[i].assistant_content # NULL
                     /\ ~messages[i].product.null
                     /\ messages[i].product.list = [k \in 1..Len(all) |-> Stringify(all[k])]

\* a result with primary and secondary products
ResultPersistedWitness ==
    \E t \in Turns :
        /\ HasResult(t)
        /\ ResultOf(t).products # <<>>
        /\ ResultOf(t).toastdProducts # <<>>
        /\ ResultOf(t).assistantResponse = FallbackAnswer

\* the rows of the turns of session s that ended with a result, and the last of them
CompletedRows(s) ==
    {i \in 1..Len(messages) : \E t \in Turns : HasResult(t) /\ sid[t] = s /\ messages[i].id = mid[t]}
LastCompleted(s) == messages[CHOOSE i \in CompletedRows(s) : \A j \in CompletedRows(s) : j <= i].id
RowIndex(m) == CHOOSE i \in RowsOf(m) : TRUE

\* a list with a pair appended, cut to its last 10 entries
AppendedCut(list, pair) ==
    LET all == list \o <<pair>>
        n == Min(10, Len(all))
    IN [k \in 1..n |-> all[Len(all) - n + k]]

\* C20: updateSessionContext leaves as the cached list of the session the
\* list cached before (the empty list when none was cached) with the new
\* pair appended, cut to its last 10 entries; and at all times a cached list
\* has at most 10 entries, oldest first, the last of them the pair of the
\* most recently completed turn of the session.
CachedContext ==
    /\ [](\A s \in SessionIds :
            cache[s].present =>
                LET l == cache[s].list
                IN /\ Len(l) <= 10
                   /\ \A i, j \in 1..Len(l) : i < j => RowIndex(l[i].of) < RowIndex(l[j].of)
                   /\ l # <<>> =>
                         /\ CompletedRows(s) # {}
                         /\ Last(l).of = LastCompleted(s)
                         /\ Last(l).assistant # NULL)
    /\ [][\A t \in Turns :
            (pc[t] = "updSet" /\ redisOpen) =>
                cache'[sid[t]] =
                    CacheList(AppendedCut(IF cache[sid[t]].present THEN cache[sid[t]].list
                                          ELSE <<>>,
                                          Pair(req[t].message, ResultOf(t).assistantResponse',
                                               mid[t])))]_vars

\* C21: when two turns of one session run at the same time and both end with
\* a result, both message rows are complete in the store; every cache write
\* of updateSessionContext replaces the cached list by the list that turn
\* read with its own pair appended, whatever the cache holds by then, so the
\* final cached list is the one of the turn that wrote last and ends with
\* that turn's pair (the other turn's pair may be missing).
LastWriteWins ==
    /\ [](\A t, u \in Turns :
            (t # u /\ HasResult(t) /\ HasResult(u) /\ sid[t] = sid[u]) =>
                /\ \A x \in {t, u} :
                      /\ Cardinality(RowsOf(mid[x])) = 1
                      /\ \A i \in RowsOf(mid[x]) : messages[i] = WrittenRow(x)
                /\ cache[sid[t]].present
                /\ cache[sid[t]].list # <<>>
                /\ Last(cache[sid[t]].list).of \in {mid[t], mid[u]}
                /\ Last(cache[sid[t]].list).assistant # NULL)
    /\ [][\A t \in Turns :
            (pc[t] = "updSet" /\ pc'[t] = "done" /\ redisOpen) =>
                cache'[sid[t]] =
                    CacheList(AppendedCut(IF cachedContext[t].present THEN cachedContext[t].list
                                          ELSE <<>>,
                                          Pair(req[t].message, ResultOf(t).assistantResponse',
                                               mid[t])))]_vars

\* both turns of a session ended with a result and the cache lacks the pair of one
LastWriteWinsWitness ==
    \E t, u \in Turns :
        /\ t # u /\ HasResult(t) /\ HasResult(u) /\ sid[t] = sid[u]
        /\ cache[sid[t]].present
        /\ CachedPairsOf(t) = {}
        /\ CachedPairsOf(u) # {}

\* C22: the request sent to the secondary provider carries the query text of
\* the primary search (the refined search query of the intent) and the
\* price bounds of the primary search filter.
SecondaryQuery ==
    \A t \in Turns :
        (trace[t].toastdApi > 0 /\ trace[t].queries # <<>>) =>
            LET q == trace[t].queries[1]
            IN /\ toastdReq[t].query = q.vector
               /\ IF q.filter.range
                  THEN /\ toastdReq[t].priceMin = q.filter.gte
                       /\ toastdReq[t].priceMax = q.filter.lte
                  ELSE /\ toastdReq[t].priceMin = NoNum
                       /\ toastdReq[t].priceMax = NoNum

\* the points of every collection of the index
AllPoints == UNION {Range(Collection(c)) : c \in ExistingCollections}

\* C23: the primary search applies no price constraint when the intent gives
\* neither bound; with one bound or both it filters from the given lower
\* bound (0 when missing, and a given 0 is 0) to the given upper bound (a
\* given 0 is 0), and without a given upper bound no point of the index is
\* above the upper bound used.
PriceDefaults ==
    \A t \in Turns :
        pc[t] # "done" =>
            \A k \in 1..Len(trace[t].queries) :
                LET f == trace[t].queries[k].filter
                    p == PrefsOf(intentData[t])
                IN IF p.price_min = NoNum /\ p.price_max = NoNum
                   THEN ~f.range
                   ELSE /\ f.range
                        /\ f.gte = (IF p.price_min = NoNum THEN 0 ELSE p.price_min)
                        /\ p.price_max # NoNum => f.lte = p.price_max
                        /\ p.price_max = NoNum =>
                              \A pt \in AllPoints : pt.payload.price_numeric <= f.lte

\* C24: an item whose brand is in seenBrands is in the output of the
\* diversity merge only when the pool holds fewer than limit items whose
\* brand is not in seenBrands.
StrictNewBrandPriority ==
    (dPc = "ret" /\ \E i \in 1..Len(dOut) : BrandOf(dOut[i]) \in dSeen) =>
        Len(NewBrandItems(dItems, dSeen)) < dLimit

\* the position of an item in a list of distinct items; the number of items
\* of its brand up to a position; the first position of a brand
PosIn(list, p) == CHOOSE i \in 1..Len(list) : list[i] = p
BrandRank(list, i) == Cardinality({j \in 1..i : BrandOf(list[j]) = BrandOf(list[i])})
FirstPos(list, b) ==
    CHOOSE i \in 1..Len(list) :
        /\ BrandOf(list[i]) = b
        /\ \A j \in 1..(i - 1) : BrandOf(list[j]) # b

\* what C25 says of one list and its interleaving
RoundRobin(list, out) ==
    /\ Len(out) = Len(list)
    /\ Range(out) = Range(list)
    /\ \A i, j \in 1..Len(out) :
          /\ (i < j /\ BrandOf(out[i]) = BrandOf(out[j])) =>
                PosIn(list, out[i]) < PosIn(list, out[j])
          /\ BrandRank(out, i) < BrandRank(out, j) => i < j
    /\ LET d == Cardinality(OutBrands(list))
       IN /\ Cardinality({BrandOf(out[k]) : k \in 1..d}) = d
          /\ \A k, l \in 1..d :
                k < l => FirstPos(list, BrandOf(out[k])) < FirstPos(list, BrandOf(out[l]))

\* C25: interleaveByBrand returns a permutation of its input in which items
\* of one brand keep their order and the k-th item of every brand comes
\* before the (k+1)-th item of any brand, so that the first d items of a
\* list with d distinct brands are of d distinct brands in order of first
\* appearance; checked for the two lists the diversity merge interleaves.
RoundRobinInterleave ==
    dPc = "ret" =>
        /\ RoundRobin(NewBrandItems(dItems, dSeen),
                      interleaveByBrand(NewBrandItems(dItems, dSeen)))
        /\ RoundRobin(OldBrandItems(dItems, dSeen),
                      interleaveByBrand(OldBrandItems(dItems, dSeen)))

\* the merge of the example pool, whose interleaving is A, B, C, D, A, B, A
RoundRobinWitness ==
    /\ dPc = "ret"
    /\ dItems = ExamplePool
    /\ [k \in 1..7 |-> BrandOf(interleaveByBrand(NewBrandItems(dItems, dSeen))[k])]
         = <<"A", "B", "C", "D", "A", "B", "A">>

\* C26: for every turn that ended with a result, the history of its session
\* gives for its message the split of the result event: the same products
\* and the same toastdProducts, on either path of the secondary search.
HistorySplit ==
    histResp.status = 200 =>
        \A t \in Turns :
            (HasResult(t) /\ sid[t] = histResp.sessionId) =>
                \E k \in 1..Len(histResp.messages) :
                    /\ histResp.messages[k].id = <<mid[t], "assistant">>
                    /\ histResp.messages[k].products = ResultOf(t).products
                    /\ histResp.messages[k].toastdProducts = ResultOf(t).toastdProducts

\* C27: the turns in flight come to their end, and a turn at its end has
\* closed its stream, a result or an error event being the last event of
\* it; the step that closes a stream is the one that sends that event.
TurnTerminates ==
    /\ (InFlight # {}) ~> (InFlight = {})
    /\ [](\A t \in Turns :
            pc[t] = "done" => (closed[t] /\ stream[t] # <<>> /\ Terminal(Last(stream[t]))))
    /\ [][\A t \in Turns :
            (~closed[t] /\ closed'[t]) =>
                /\ stream'[t] # <<>>
                /\ Terminal(Last(stream'[t]))
                /\ \A k \in 1..Len(stream[t]) : ~Terminal(stream[t][k])]_vars

\* a stream closed after the error of a failed UPDATE, the cache down
TurnTerminatesWitness ==
    \E t \in Turns :
        /\ closed[t]
        /\ trace[t].failedAt = "storeAssistant"
        /\ Last(stream[t]).type = "error"
        /\ ~redisOpen

\* C28: the diversity merge returns exactly min(limit, pool size) items, each
\* an item of the pool, none twice, all among the first 2*limit items of the
\* list of the new-brand items interleaved followed by the old-brand items
\* interleaved; an empty pool gives an empty list.
MergeShape ==
    dPc = "ret" =>
        LET prioritized == interleaveByBrand(NewBrandItems(dItems, dSeen))
                               \o interleaveByBrand(OldBrandItems(dItems, dSeen))
            top == {prioritized[k] : k \in 1..Min(2 * dLimit, Len(prioritized))}
        IN /\ Len(dOut) = Min(dLimit, Len(dItems))
           /\ \A i \in 1..Len(dOut) : \E k \in 1..Len(dItems) : dOut[i] = Product(dItems[k])
           /\ \A i, j \in 1..Len(dOut) : i # j => dOut[i] # dOut[j]
           /\ Range(dOut) \subseteq top
           /\ dItems = <<>> => dOut = <<>>

\* a pool of more than 2*limit items, the output the second of the prioritized list
MergeShapeWitness ==
    /\ dPc = "ret"
    /\ dLimit = 1
    /\ Len(dItems) = 4
    /\ dSeen # {}
    /\ dOut = <<FinalPool(dItems, dSeen)[2]>>

\* C29: every pair of the list getSessionContext returned to a turn stands
\* for a completed turn of the same session other than the turn itself: its
\* assistant text is not null, no turn has two pairs, and the pair of the
\* row in flight is not in the list.
ContextContents ==
    \A t \in Turns :
        \A k \in 1..Len(history[t]) :
            /\ history[t][k].assistant # NULL
            /\ history[t][k].of # mid[t]
            /\ \E u \in Turns : u # t /\ mid[u] = history[t][k].of /\ sid[u] = sid[t]
            /\ \A j \in 1..Len(history[t]) : j # k => history[t][j].of # history[t][k].of

\* C30: of the turns that supply one session id the store does not know,
\* each gets past the session step: none is left to insert a session row
\* that another turn has inserted meanwhile (which fails on the primary
\* key and ends the turn with an error), and the id has at most one row.
ConcurrentSessionCreation ==
    \A t \in Turns :
        /\ Cardinality(SessionRows(sid[t])) <= 1
        /\ pc[t] = "sessionInsert" => SessionRows(sid[t]) = {}

====
